---- MODULE Spec2Model ----
(***************************************************************************)
(* Model of the distributed training driver src/src/train.py:             *)
(* setup_distributed, get_lr and the loop of train(), one process per     *)
(* rank, with the output directory as the shared filesystem.              *)
(*                                                                         *)
(* Numbers.  Learning rates are fixed-point integers in units of 1e-6     *)
(* (600 is 6e-4).  math.cos is evaluated at the points pi*k/m the         *)
(* schedule can reach, as a value scaled by CosScale; cos(0) = 1,         *)
(* cos(pi/2) = 0 and cos(pi) = -1 are exact, as they are for math.cos.    *)
(* Model parameters and optimizer state are abstracted to a version       *)
(* number: the count of optimizer updates that produced them.             *)
(***************************************************************************)
EXTENDS Integers, Sequences, FiniteSets, TLC

(* ------------------------------ bounds -------------------------------- *)
MaxWorld == 2
MaxEpochs == 2
MaxBatches == 3
MaxAccum == 2
MaxIters == 5
MaxEval == 2
MaxLog == 2
MaxWarmup == 2
MaxDecay == 3
MaxTokens == 5
MaxBlock == 2

CosScale == 1000000

LearningRates == {600, 1000}
MinLearningRates == {0, 60}

VARIABLES config, env, proc, files, saveLog, lrCall, loaded, dsCall

vars == <<config, env, proc, files, saveLog, lrCall, loaded, dsCall>>

Procs == DOMAIN env

(* ------------------------------ get_lr -------------------------------- *)
RECURSIVE Gcd(_, _)
Gcd(a, b) == IF b = 0 THEN a ELSE Gcd(b, a % b)

\* a / b rounded to the nearest unit of the fixed-point grid (a >= 0, b > 0)
RoundDiv(a, b) == (2 * a + b) \div (2 * b)

\* math.cos(math.pi * k / m) for 0 <= 2k <= m, k/m in lowest terms, scaled
CosTable(k, m) ==
    CASE k = 0 -> CosScale
      [] k = 1 /\ m = 2 -> 0
      [] k = 1 /\ m = 3 -> 500000
      [] k = 1 /\ m = 4 -> 707107
      [] k = 1 /\ m = 5 -> 809017
      [] k = 2 /\ m = 5 -> 309017
      [] k = 1 /\ m = 6 -> 866025

\* math.cos(math.pi * num / den) for 0 <= num <= den, den > 0, scaled
CosPi(num, den) ==
    LET g == Gcd(num, den)
        k == num \div g
        m == den \div g
    IN  IF 2 * k <= m THEN CosTable(k, m) ELSE 0 - CosTable(m - k, m)

\* get_lr raises ZeroDivisionError at line 39
GetLrRaises(it, warmup_iters, lr_decay_iters) ==
    /\ ~(it < warmup_iters)
    /\ ~(it > lr_decay_iters)
    /\ lr_decay_iters - warmup_iters = 0

\* get_lr with the decay ratio taken from step 0 instead of from the end of warmup
GetLr_NoWarmupOffset(it, warmup_iters, learning_rate, lr_decay_iters, min_lr) ==
    IF it < warmup_iters
    THEN RoundDiv(learning_rate * it, warmup_iters)
    ELSE IF it > lr_decay_iters
         THEN min_lr
         ELSE LET coeff == RoundDiv(CosScale + CosPi(it, lr_decay_iters), 2)
              IN  min_lr + RoundDiv(coeff * (learning_rate - min_lr), CosScale)

GetLr(it, warmup_iters, learning_rate, lr_decay_iters, min_lr) ==
    IF it < warmup_iters
    THEN RoundDiv(learning_rate * it, warmup_iters)
    ELSE IF it > lr_decay_iters
         THEN min_lr
         ELSE LET coeff == RoundDiv(CosScale + CosPi(it - warmup_iters,
                                        lr_decay_iters - warmup_iters), 2)
              IN  min_lr + RoundDiv(coeff * (learning_rate - min_lr), CosScale)

(* --------------------------- configuration ---------------------------- *)
\* os.environ of the processes of one launch
NoEnv == [k \in {} |-> 0]
BothEnv(r, n) == [k \in {"RANK", "WORLD_SIZE"} |-> IF k = "RANK" THEN r ELSE n]
RankOnlyEnv(r) == [k \in {"RANK"} |-> r]
WorldOnlyEnv(n) == [k \in {"WORLD_SIZE"} |-> n]

\* one process started by hand, with every combination of the two signals
SingleLaunches ==
    { [p \in {0} |-> e] : e \in {NoEnv, BothEnv(0, 1), RankOnlyEnv(1), WorldOnlyEnv(2)} }

\* torchrun: n processes, each with its RANK and the common WORLD_SIZE
Torchrun(n) == [p \in 0 .. (n - 1) |-> BothEnv(p, n)]

\* config["training"], the keys train() reads; num_batches is len(train_loader)
Configs(epochs, batches, accums, iters, evals, logs, schedules, clips) ==
    { [max_epochs |-> e, num_batches |-> b, gradient_accumulation_steps |-> n,
       max_iters |-> k, eval_interval |-> ev, log_interval |-> lg,
       warmup_iters |-> wd[1], lr_decay_iters |-> wd[2],
       learning_rate |-> 600, min_lr |-> 60, grad_clip |-> gc,
       model |-> "GPTConfig(**config[model])"] :
         e \in epochs, b \in batches, n \in accums, k \in iters, ev \in evals,
         lg \in logs, wd \in schedules, gc \in clips }

(* ------------------------------- state -------------------------------- *)
\* the locals of one train() call before setup_distributed has run
NewProc ==
    [pc |-> "setup", rank |-> 0, world_size |-> 1, pg |-> FALSE,
     epoch |-> 0, batch_idx |-> 0, iter_num |-> 0, lr |-> 0,
     micro |-> 0, opt |-> 0, grads |-> 0, params |-> 0, syncs |-> 0,
     window |-> 0, step_lr |-> 0, ops |-> <<>>, sync_iter |-> 0,
     running |-> 0, reports |-> <<>>,
     io |-> {}, error |-> "none"]

\* state_dict(): parameter name -> tensor, the tensors abstracted to a version
ParamNames == {"transformer.wte.weight", "lm_head.weight"}
StateDict(version) == [n \in ParamNames |-> version]

CheckpointPath(iter_num) == <<"checkpoint", iter_num>>
FinalPath == <<"final_model.pt">>

IdleLrCall == [state |-> "idle"]
IdleLoad == [state |-> "idle"]
IdleDsCall == [state |-> "idle"]

InitWith(launches, configs) ==
    /\ env \in launches
    /\ config \in configs
    /\ proc = [p \in DOMAIN env |-> NewProc]
    /\ files = [dir |-> FALSE, file |-> [f \in {} |-> 0]]
    /\ saveLog = <<>>
    /\ lrCall = IdleLrCall
    /\ loaded = IdleLoad
    /\ dsCall = IdleDsCall

IsMaster(p) == proc[p].rank = 0

Set(p, fields) == [proc EXCEPT ![p] = fields @@ @]

(* ------------------------- setup_distributed -------------------------- *)
SetupDistributed(e) ==
    IF "RANK" \in DOMAIN e /\ "WORLD_SIZE" \in DOMAIN e
    THEN [rank |-> e["RANK"], world_size |-> e["WORLD_SIZE"], pg |-> TRUE]
    ELSE [rank |-> 0, world_size |-> 1, pg |-> FALSE]

(* ------------------------------ train() ------------------------------- *)
\* lines 45-88: topology, model, optimizer, loader
Setup(p) ==
    /\ proc[p].pc = "setup"
    /\ proc' = Set(p, [pc |-> "prepare"] @@ SetupDistributed(env[p]))
    /\ UNCHANGED <<config, env, files, saveLog, lrCall, loaded, dsCall>>

\* lines 90-102: output directory, counters, banner
Prepare(p) ==
    /\ proc[p].pc = "prepare"
    /\ files' = [files EXCEPT !.dir = TRUE]
    /\ proc' = Set(p, [pc |-> "epoch", iter_num |-> 0,
                       io |-> proc[p].io \cup {"mkdir"}
                               \cup (IF IsMaster(p) THEN {"print"} ELSE {})])
    /\ UNCHANGED <<config, env, saveLog, lrCall, loaded, dsCall>>

\* the epoch loop head with the step counter started again in every epoch
EpochHead_ResetsIterNum(p) ==
    /\ proc[p].pc = "epoch"
    /\ proc' = IF proc[p].epoch < config.max_epochs
               THEN Set(p, [pc |-> "batch", batch_idx |-> 0, iter_num |-> 0])
               ELSE Set(p, [pc |-> "final"])
    /\ UNCHANGED <<config, env, files, saveLog, lrCall, loaded, dsCall>>

\* lines 104-106: the epoch loop head
EpochHead(p) ==
    /\ proc[p].pc = "epoch"
    /\ proc' = IF proc[p].epoch < config.max_epochs
               THEN Set(p, [pc |-> "batch", batch_idx |-> 0])
               ELSE Set(p, [pc |-> "final"])
    /\ UNCHANGED <<config, env, files, saveLog, lrCall, loaded, dsCall>>

\* lines 108-123: next batch, learning rate, forward pass; the loader running
\* out ends the epoch and falls to the check of lines 162-163
Forward(p) ==
    /\ proc[p].pc = "batch"
    /\ proc' =
         IF proc[p].batch_idx >= config.num_batches
         THEN IF proc[p].iter_num >= config.max_iters
              THEN Set(p, [pc |-> "final"])
              ELSE Set(p, [pc |-> "epoch", epoch |-> proc[p].epoch + 1])
         ELSE IF GetLrRaises(proc[p].iter_num, config.warmup_iters, config.lr_decay_iters)
              THEN Set(p, [pc |-> "crashed", error |-> "ZeroDivisionError"])
              ELSE Set(p, [pc |-> "backward", micro |-> proc[p].micro + 1,
                           lr |-> GetLr(proc[p].iter_num, config.warmup_iters,
                                        config.learning_rate, config.lr_decay_iters,
                                        config.min_lr)])
    /\ UNCHANGED <<config, env, files, saveLog, lrCall, loaded, dsCall>>

\* line 125 (with the wrapper of lines 64-65): backward; under DDP its gradient
\* all-reduce returns once every rank of the group has called this backward
Backward(p) ==
    /\ proc[p].pc = "backward"
    /\ proc[p].world_size > 1 =>
          \A q \in Procs : proc[q].micro >= proc[p].micro
    /\ proc' = Set(p, [pc |-> "step", grads |-> proc[p].grads + 1,
                       syncs |-> proc[p].syncs + (IF proc[p].world_size > 1 THEN 1 ELSE 0),
                       sync_iter |-> proc[p].iter_num])
    /\ UNCHANGED <<config, env, files, saveLog, lrCall, loaded, dsCall>>

\* line 127
AtBoundary(batch_idx, gradient_accumulation_steps) ==
    (batch_idx + 1) % gradient_accumulation_steps = 0

\* the calls of lines 128-134 with the test of line 128 left out
BoundaryOps_AlwaysClip(grad_clip) ==
    <<"unscale_", "clip_grad_norm_", "step", "update", "zero_grad">>

\* lines 128-134: the calls made at a boundary, in order
BoundaryOps(grad_clip) ==
    (IF grad_clip # 0 THEN <<"unscale_", "clip_grad_norm_">> ELSE <<>>)
        \o <<"step", "update", "zero_grad">>

\* lines 127-136: clip, optimizer step, zero_grad at a window boundary; window
\* is the number of backward passes whose gradients the step applied, step_lr
\* the learning rate of the parameter groups at the step
Boundary(p) ==
    /\ proc[p].pc = "step"
    /\ proc' = IF AtBoundary(proc[p].batch_idx, config.gradient_accumulation_steps)
               THEN Set(p, [pc |-> "log", opt |-> proc[p].opt + 1,
                            params |-> proc[p].params + 1, grads |-> 0,
                            window |-> proc[p].grads, step_lr |-> proc[p].lr,
                            ops |-> BoundaryOps(config.grad_clip)])
               ELSE Set(p, [pc |-> "log", ops |-> <<>>])
    /\ UNCHANGED <<config, env, files, saveLog, lrCall, loaded, dsCall>>

(* ----------------------------- torch.save ------------------------------ *)
\* torch.save(obj, path) opens path itself and streams obj into it: from the
\* open until the close the file exists with a prefix of the data
SaveBegin(p, path, obj) ==
    /\ files' = [files EXCEPT !.file = (path :> [state |-> "partial", obj |-> obj]) @@ @]
    /\ saveLog' = Append(saveLog, [path |-> path, obj |-> obj, writer |-> p,
                                    iter_num |-> proc[p].iter_num, micro |-> proc[p].micro,
                                    grads |-> proc[p].grads,
                                    overwrote |-> path \in DOMAIN files.file])

SaveEnd(path) ==
    files' = [files EXCEPT !.file[path].state = "complete"]

\* lines 148-153
CheckpointObject(p) ==
    [model |-> StateDict(proc[p].params), optimizer |-> proc[p].opt,
     iter_num |-> proc[p].iter_num, config |-> config]

\* the final artifact saved with the keys of an interval checkpoint
FinalObject_Full(p) == CheckpointObject(p)

\* line 167: raw_model.state_dict()
FinalObject(p) == StateDict(proc[p].params)

\* the cadence test without its iter_num > 0 conjunct
CheckpointDue_AtZero(iter_num, eval_interval) == iter_num % eval_interval = 0

\* line 146
CheckpointDue(iter_num, eval_interval) ==
    iter_num % eval_interval = 0 /\ iter_num > 0

\* line 138
LogDue(iter_num, log_interval) == iter_num % log_interval = 0

\* lines 136-155: the loss joins running_loss, then the master log line, which
\* alone resets it, then the interval checkpoint up to the point where
\* torch.save has opened the file. running is the number of micro-steps whose
\* loss running_loss holds, reports the value of running at each log line
LogCheckpoint(p) ==
    /\ proc[p].pc = "log"
    /\ LET logs == LogDue(proc[p].iter_num, config.log_interval) /\ IsMaster(p)
           printed == IF logs THEN {"print"} ELSE {}
           summed == proc[p].running + 1
           logged == IF logs
                     THEN [running |-> 0, reports |-> Append(proc[p].reports, summed)]
                     ELSE [running |-> summed]
       IN  IF CheckpointDue(proc[p].iter_num, config.eval_interval) /\ IsMaster(p)
           THEN /\ proc' = Set(p, logged @@
                                  [pc |-> "saving",
                                   io |-> proc[p].io \cup printed \cup {"save"}])
                /\ SaveBegin(p, CheckpointPath(proc[p].iter_num), CheckpointObject(p))
           ELSE /\ proc' = Set(p, logged @@
                                  [pc |-> "advance", io |-> proc[p].io \cup printed])
                /\ UNCHANGED <<files, saveLog>>
    /\ UNCHANGED <<config, env, lrCall, loaded, dsCall>>

\* lines 155-156: torch.save returns, the path is printed
SaveDone(p) ==
    /\ proc[p].pc = "saving"
    /\ SaveEnd(CheckpointPath(proc[p].iter_num))
    /\ proc' = Set(p, [pc |-> "advance", io |-> proc[p].io \cup {"print"}])
    /\ UNCHANGED <<config, env, saveLog, lrCall, loaded, dsCall>>

\* lines 159 and 162
ReachedMaxIters(iter_num, max_iters) == iter_num >= max_iters

\* the break of lines 159-160 leaving the batch loop only, the epoch loop going on
Advance_InnerBreakOnly(p) ==
    /\ proc[p].pc = "advance"
    /\ proc' = IF ReachedMaxIters(proc[p].iter_num + 1, config.max_iters)
               THEN Set(p, [pc |-> "epoch", iter_num |-> proc[p].iter_num + 1,
                            epoch |-> proc[p].epoch + 1])
               ELSE Set(p, [pc |-> "batch", iter_num |-> proc[p].iter_num + 1,
                            batch_idx |-> proc[p].batch_idx + 1])
    /\ UNCHANGED <<config, env, files, saveLog, lrCall, loaded, dsCall>>

\* lines 158-163: count the step; at max_iters leave the batch loop and, by
\* the same test after it, the epoch loop
Advance(p) ==
    /\ proc[p].pc = "advance"
    /\ proc' = IF ReachedMaxIters(proc[p].iter_num + 1, config.max_iters)
               THEN Set(p, [pc |-> "final", iter_num |-> proc[p].iter_num + 1])
               ELSE Set(p, [pc |-> "batch", iter_num |-> proc[p].iter_num + 1,
                            batch_idx |-> proc[p].batch_idx + 1])
    /\ UNCHANGED <<config, env, files, saveLog, lrCall, loaded, dsCall>>

\* lines 165-167: the final model, up to torch.save having opened the file
FinalSave(p) ==
    /\ proc[p].pc = "final"
    /\ IF IsMaster(p)
       THEN /\ proc' = Set(p, [pc |-> "final_saving", io |-> proc[p].io \cup {"save"}])
            /\ SaveBegin(p, FinalPath, FinalObject(p))
       ELSE /\ proc' = Set(p, [pc |-> "cleanup"])
            /\ UNCHANGED <<files, saveLog>>
    /\ UNCHANGED <<config, env, lrCall, loaded, dsCall>>

\* lines 167-168
FinalSaveDone(p) ==
    /\ proc[p].pc = "final_saving"
    /\ SaveEnd(FinalPath)
    /\ proc' = Set(p, [pc |-> "cleanup", io |-> proc[p].io \cup {"print"}])
    /\ UNCHANGED <<config, env, saveLog, lrCall, loaded, dsCall>>

\* line 170 and cleanup_distributed
Cleanup(p) ==
    /\ proc[p].pc = "cleanup"
    /\ proc' = Set(p, [pc |-> "done", pg |-> FALSE])
    /\ UNCHANGED <<config, env, files, saveLog, lrCall, loaded, dsCall>>

(* ------------------------ get_lr called alone ------------------------- *)
\* a call get_lr(it, warmup_iters, learning_rate, lr_decay_iters, min_lr)
LrCalls ==
    [state : {"call"}, it : 0 .. (MaxDecay + 1), warmup_iters : 0 .. MaxWarmup,
     lr_decay_iters : 0 .. MaxDecay, learning_rate : LearningRates,
     min_lr : MinLearningRates]

CallGetLr ==
    /\ lrCall.state = "call"
    /\ lrCall' =
         IF GetLrRaises(lrCall.it, lrCall.warmup_iters, lrCall.lr_decay_iters)
         THEN [state |-> "raised", error |-> "ZeroDivisionError"] @@ lrCall
         ELSE [state |-> "returned",
               result |-> GetLr(lrCall.it, lrCall.warmup_iters, lrCall.learning_rate,
                                lrCall.lr_decay_iters, lrCall.min_lr)] @@ lrCall
    /\ UNCHANGED <<config, env, proc, files, saveLog, loaded, dsCall>>

(* ---------------------- evaluate.py: load_model ----------------------- *)
\* a dictionary cut down to the keys in keys
Restrict(dict, keys) == [k \in keys |-> dict[k]]

\* model.load_state_dict(state_dict) is strict: the keys must be the model's
\* parameter names
LoadStateDictRaises(state_dict) == DOMAIN state_dict # ParamNames

\* lines 30-44 on the object torch.load returned
LoadModelFrom(checkpoint) ==
    LET model_config == IF "config" \in DOMAIN checkpoint
                        THEN checkpoint["config"].model
                        ELSE "GPTConfig()"
        state_dict == IF "model" \in DOMAIN checkpoint
                      THEN checkpoint["model"]
                      ELSE checkpoint
    IN  IF LoadStateDictRaises(state_dict)
        THEN [state |-> "raised", error |-> "RuntimeError", checkpoint |-> checkpoint]
        ELSE [state |-> "returned", model_config |-> model_config,
              params |-> state_dict, checkpoint |-> checkpoint]

\* load_model(checkpoint_path, device); torch.load of a file whose writer has
\* not finished raises
LoadModel(path) ==
    /\ loaded.state = "idle"
    /\ path \in DOMAIN files.file
    /\ loaded' =
         [path |-> path] @@
         (IF files.file[path].state = "partial"
          THEN [state |-> "raised", error |-> "RuntimeError"]
          ELSE LoadModelFrom(files.file[path].obj))
    /\ UNCHANGED <<config, env, proc, files, saveLog, lrCall, dsCall>>

(* ------------------------ dataset.py: TextDataset ---------------------- *)
\* np.memmap(..., dtype=np.uint16): the smallest and the largest token value
Tokens == {0, 65535}

\* data[start:end] of numpy, 0-based, the end clipped to the length
Slice(data, start, end) ==
    LET stop == IF end < Len(data) THEN end ELSE Len(data)
    IN  IF stop <= start THEN <<>> ELSE [j \in 1 .. (stop - start) |-> data[start + j]]

\* lines 21-22
DatasetLen(data, block_size) == Len(data) \div block_size

\* lines 24-31; astype(np.int64) keeps the value of a uint16
GetItem(data, block_size, idx) ==
    LET start_idx == idx * block_size
        end_idx == start_idx + block_size + 1
        chunk == Slice(data, start_idx, end_idx)
    IN  [x |-> Slice(chunk, 0, Len(chunk) - 1), y |-> Slice(chunk, 1, Len(chunk))]

\* len(dataset) and dataset[idx] for an index the loader can draw
DatasetCalls ==
    { [state |-> "call", data |-> d, block_size |-> b, idx |-> i] :
        d \in UNION { [1 .. t -> Tokens] : t \in 0 .. MaxTokens },
        b \in 1 .. MaxBlock, i \in 0 .. (MaxTokens - 1) }

CallGetItem ==
    /\ dsCall.state = "call"
    /\ dsCall' = [state |-> "returned",
                  len |-> DatasetLen(dsCall.data, dsCall.block_size),
                  item |-> GetItem(dsCall.data, dsCall.block_size, dsCall.idx)] @@ dsCall
    /\ UNCHANGED <<config, env, proc, files, saveLog, lrCall, loaded>>

(* --------------------------- specifications --------------------------- *)
Schedules == (0 .. MaxWarmup) \X (0 .. MaxDecay)

\* one process started without the distributed signals: every loop shape,
\* cadence and schedule
Init ==
    InitWith({[p \in {0} |-> NoEnv]},
             Configs(1 .. MaxEpochs, 1 .. MaxBatches, 1 .. MaxAccum, 0 .. MaxIters,
                     1 .. MaxEval, 1 .. MaxLog, Schedules, {0, 1}))

\* a torchrun launch of 2 .. MaxWorld ranks
InitDist ==
    InitWith({Torchrun(n) : n \in 2 .. MaxWorld},
             Configs({MaxEpochs}, 1 .. MaxBatches, 1 .. MaxAccum, {MaxIters},
                     1 .. MaxEval, {MaxLog},
                     {<<MaxWarmup, MaxWarmup>>, <<MaxWarmup, MaxDecay>>}, {1}))

\* one process started by hand with any subset of RANK and WORLD_SIZE set
InitEnv ==
    InitWith(SingleLaunches,
             Configs({1}, 1 .. MaxBatches, 1 .. MaxAccum, 0 .. MaxIters,
                     {MaxEval}, {MaxLog}, {<<MaxWarmup, MaxDecay>>}, {1}))

\* no training process: get_lr is called on its own
InitLR ==
    /\ env = NoEnv
    /\ config \in Configs({1}, {1}, {1}, {1}, {1}, {1}, {<<0, 1>>}, {1})
    /\ proc = [p \in {} |-> NewProc]
    /\ files = [dir |-> FALSE, file |-> [f \in {} |-> 0]]
    /\ saveLog = <<>>
    /\ lrCall \in LrCalls
    /\ loaded = IdleLoad
    /\ dsCall = IdleDsCall

\* one training process, and load_model called once at any moment on any file
\* of the output directory; another checkpoint file is there from the start,
\* holding any subset of the four keys
InitLoad ==
    /\ env = [p \in {0} |-> NoEnv]
    /\ config \in Configs({1}, {MaxBatches}, 1 .. MaxAccum, {MaxIters}, 1 .. MaxEval,
                           {MaxLog}, {<<MaxWarmup, MaxDecay>>}, {1})
    /\ proc = [p \in DOMAIN env |-> NewProc]
    /\ \E keys \in SUBSET {"model", "optimizer", "iter_num", "config"} :
          files = [dir |-> TRUE,
                   file |-> (<<"other.pt">> :>
                               [state |-> "complete",
                                obj |-> Restrict([model |-> StateDict(0), optimizer |-> 0,
                                                  iter_num |-> 0, config |-> config],
                                                 keys)])]
    /\ saveLog = <<>>
    /\ lrCall = IdleLrCall
    /\ loaded = IdleLoad
    /\ dsCall = IdleDsCall

\* no training process: the dataset is indexed on its own
InitData ==
    /\ env = NoEnv
    /\ config \in Configs({1}, {1}, {1}, {1}, {1}, {1}, {<<0, 1>>}, {1})
    /\ proc = [p \in {} |-> NewProc]
    /\ files = [dir |-> FALSE, file |-> [f \in {} |-> 0]]
    /\ saveLog = <<>>
    /\ lrCall = IdleLrCall
    /\ loaded = IdleLoad
    /\ dsCall \in {c \in DatasetCalls : c.idx < DatasetLen(c.data, c.block_size)}

Next ==
    \/ \E p \in Procs : Setup(p)
    \/ \E p \in Procs : Prepare(p)
    \/ \E p \in Procs : EpochHead(p)
    \/ \E p \in Procs : Forward(p)
    \/ \E p \in Procs : Backward(p)
    \/ \E p \in Procs : Boundary(p)
    \/ \E p \in Procs : LogCheckpoint(p)
    \/ \E p \in Procs : SaveDone(p)
    \/ \E p \in Procs : Advance(p)
    \/ \E p \in Procs : FinalSave(p)
    \/ \E p \in Procs : FinalSaveDone(p)
    \/ \E p \in Procs : Cleanup(p)

NextLR == CallGetLr

NextLoad ==
    \/ Next
    \/ \E path \in DOMAIN files.file : LoadModel(path)

NextData == CallGetItem

Spec == Init /\ [][Next]_vars
SpecDist == InitDist /\ [][Next]_vars
SpecEnv == InitEnv /\ [][Next]_vars
SpecLR == InitLR /\ [][NextLR]_vars
SpecLoad == InitLoad /\ [][NextLoad]_vars
SpecData == InitData /\ [][NextData]_vars
\* the torchrun launch with every process that can take a step taking one in
\* the end: no process is suspended forever by the scheduler
SpecDistFair == InitDist /\ [][Next]_vars /\ WF_vars(Next)

(* ------------------------------ claims -------------------------------- *)
\* the micro-step of process p has passed the boundary test of line 127
Settled(p) == proc[p].pc \notin {"backward", "step"}

\* train() has left its loops normally
LoopsLeft(p) == proc[p].pc \in {"final", "final_saving", "cleanup", "done"}

Reachable(k) == config.max_epochs * config.num_batches >= k

\* C1: the optimizer step fires once per gradient_accumulation_steps
\* consecutive micro-steps counted over the whole run, so after M micro-steps
\* there have been floor(M / N) optimizer updates.
C1_OncePerWindow ==
    \A p \in Procs :
        Settled(p) =>
            proc[p].opt = proc[p].micro \div config.gradient_accumulation_steps

\* C2 as stated: a run with max_iters = K >= 1 that can reach K performs
\* exactly K optimizer steps, for every gradient_accumulation_steps.
C2_ExactlyKOptimizerSteps ==
    \A p \in Procs :
        (LoopsLeft(p) /\ config.max_iters >= 1 /\ Reachable(config.max_iters)) =>
            proc[p].opt = config.max_iters

\* C2 amended: a run with max_iters = K >= 1 that can reach K and leaves its
\* loops has performed exactly K micro-steps (iter_num = K), which are K
\* optimizer steps when gradient_accumulation_steps = 1.
C2_ExactlyKMicroSteps ==
    \A p \in Procs :
        (LoopsLeft(p) /\ config.max_iters >= 1 /\ Reachable(config.max_iters)) =>
            /\ proc[p].micro = config.max_iters
            /\ proc[p].iter_num = config.max_iters
            /\ config.gradient_accumulation_steps = 1 => proc[p].opt = config.max_iters

\* a finished run whose max_iters spans more than one epoch, with a window of 2 or more
C2_Witness ==
    \E p \in Procs :
        /\ proc[p].pc = "done"
        /\ config.max_iters > config.num_batches
        /\ config.gradient_accumulation_steps >= 2
        /\ proc[p].micro = config.max_iters

\* C3: iter_num <= max_iters in every reachable state, for every
\* max_iters >= 0: no micro-step runs once iter_num has reached max_iters.
C3_IterNumNeverExceeds ==
    \A p \in Procs : proc[p].iter_num <= config.max_iters

\* C4: a rank other than 0 performs no filesystem write under output_dir
\* (creating it included) and no console output.
C4_OnlyRankZeroDoesIO ==
    \A p \in Procs : proc[p].rank # 0 => proc[p].io = {}

IntervalSaves == {i \in 1 .. Len(saveLog) : saveLog[i].path # FinalPath}

\* C5: interval checkpoints are written at exactly the iterations with
\* iter_num % eval_interval = 0 and iter_num > 0, each to the path named by its
\* iter_num; no two share a path and none overwrites an earlier file.
C5_CheckpointCadence ==
    /\ \A i \in IntervalSaves :
          /\ saveLog[i].iter_num > 0
          /\ saveLog[i].iter_num % config.eval_interval = 0
          /\ saveLog[i].path = <<"checkpoint", saveLog[i].iter_num>>
          /\ ~saveLog[i].overwrote
          /\ IsMaster(saveLog[i].writer)
    /\ \A i, j \in IntervalSaves : i < j => saveLog[i].path # saveLog[j].path
    /\ \A p \in Procs :
          (IsMaster(p) /\ proc[p].pc # "setup") =>
              \A k \in 1 .. proc[p].iter_num :
                  (/\ k % config.eval_interval = 0
                   /\ k < proc[p].iter_num \/ proc[p].pc \in {"saving", "advance"})
                      => \E i \in IntervalSaves : saveLog[i].iter_num = k

\* two interval checkpoints of one run are on disk, completely written
C5_Witness ==
    \E i, j \in IntervalSaves :
        /\ i < j
        /\ files.file[saveLog[i].path].state = "complete"
        /\ files.file[saveLog[j].path].state = "complete"

FinalSaves == {i \in 1 .. Len(saveLog) : saveLog[i].path = FinalPath}

\* C6: a run that completes has written the final model exactly once, by the
\* master, after its last micro-step and before teardown, holding the model
\* parameters only; interval checkpoints hold model, optimizer, iter_num, config.
C6_FinalModelOnce ==
    /\ \A p \in Procs :
          /\ (IsMaster(p) /\ proc[p].pc \in {"cleanup", "done"}) =>
                /\ Cardinality(FinalSaves) = 1
                /\ saveLog[Len(saveLog)].path = FinalPath
                /\ saveLog[Len(saveLog)].writer = p
                /\ saveLog[Len(saveLog)].micro = proc[p].micro
                /\ saveLog[Len(saveLog)].obj = StateDict(proc[p].params)
                /\ files.file[FinalPath] = [state |-> "complete",
                                            obj |-> StateDict(proc[p].params)]
          /\ (IsMaster(p) /\ ~LoopsLeft(p)) => FinalSaves = {}
          /\ proc[p].pc = "done" => ~proc[p].pg
          /\ proc[p].pc = "final_saving" => proc[p].pg = SetupDistributed(env[p]).pg
    /\ \A i \in FinalSaves : DOMAIN saveLog[i].obj = ParamNames
    /\ \A i \in IntervalSaves :
          DOMAIN saveLog[i].obj = {"model", "optimizer", "iter_num", "config"}

\* a run that ran out of epochs before max_iters, after an interval checkpoint
C6_Witness ==
    \E p \in Procs :
        /\ proc[p].pc = "done"
        /\ proc[p].iter_num < config.max_iters
        /\ IntervalSaves # {}
        /\ files.file[FinalPath].state = "complete"

\* C7 as stated: for 0 <= W < D, get_lr is 0 at step 0, learning_rate at
\* step W, min_lr at step D and min_lr at every step > D.
C7_ScheduleAnchors ==
    (/\ lrCall.state = "returned"
     /\ 0 <= lrCall.warmup_iters
     /\ lrCall.warmup_iters < lrCall.lr_decay_iters) =>
        /\ lrCall.it = 0 => lrCall.result = 0
        /\ lrCall.it = lrCall.warmup_iters => lrCall.result = lrCall.learning_rate
        /\ lrCall.it = lrCall.lr_decay_iters => lrCall.result = lrCall.min_lr
        /\ lrCall.it > lrCall.lr_decay_iters => lrCall.result = lrCall.min_lr

\* C7 amended: the same anchors for 0 < W < D; with W = 0 step 0 is in the
\* cosine branch and yields learning_rate, and the other anchors stand.
C7_ScheduleAnchorsWithWarmup ==
    (/\ lrCall.state = "returned"
     /\ 0 <= lrCall.warmup_iters
     /\ lrCall.warmup_iters < lrCall.lr_decay_iters) =>
        /\ lrCall.it = 0 =>
              lrCall.result = IF lrCall.warmup_iters > 0 THEN 0 ELSE lrCall.learning_rate
        /\ lrCall.it = lrCall.warmup_iters => lrCall.result = lrCall.learning_rate
        /\ lrCall.it = lrCall.lr_decay_iters => lrCall.result = lrCall.min_lr
        /\ lrCall.it > lrCall.lr_decay_iters => lrCall.result = lrCall.min_lr

\* get_lr has returned at the end of a warmup of at least two steps
C7_Witness ==
    /\ lrCall.state = "returned"
    /\ lrCall.warmup_iters >= 2
    /\ lrCall.warmup_iters < lrCall.lr_decay_iters
    /\ lrCall.it = lrCall.warmup_iters
    /\ lrCall.result = lrCall.learning_rate

\* C8: a configuration with lr_decay_iters <= warmup_iters is rejected before
\* any training step executes and never shows as a division by zero raised in
\* the loop.
C8_RejectedAtStartup ==
    config.lr_decay_iters <= config.warmup_iters =>
        \A p \in Procs : proc[p].micro = 0 /\ proc[p].error # "ZeroDivisionError"

ExactlyOneSignal(e) == ("RANK" \in DOMAIN e) # ("WORLD_SIZE" \in DOMAIN e)

\* C9: setup_distributed fails with a topology error when exactly one of RANK
\* and WORLD_SIZE is set; it returns the single-process topology only when
\* both are absent.
C9_PartialSignalsFail ==
    \A p \in Procs :
        (proc[p].pc # "setup" /\ ExactlyOneSignal(env[p])) =>
            proc[p].error = "TopologyError"

\* C10: a reader of a checkpoint path sees no file or a completely written
\* one, never a partially written one.
C10_AtomicVisibility ==
    \A path \in DOMAIN files.file : files.file[path].state = "complete"

\* C11: load_model fails when the model key or the step counter is absent from
\* the checkpoint (here: with an error of any class); it never returns a model
\* built with a default in place of the missing field.
C11_MissingFieldFails ==
    (loaded.state # "idle" /\ "checkpoint" \in DOMAIN loaded) =>
        (("model" \notin DOMAIN loaded.checkpoint \/ "iter_num" \notin DOMAIN loaded.checkpoint)
            => loaded.state = "raised")

\* C12: the dataset has length T // B and every index below the length gives
\* an input and a target window of exactly B elements, the target being the
\* input shifted by one position of the data.
C12_WindowsHaveBlockSize ==
    dsCall.state = "returned" =>
        /\ dsCall.len = Len(dsCall.data) \div dsCall.block_size
        /\ Len(dsCall.item.x) = dsCall.block_size
        /\ Len(dsCall.item.y) = dsCall.block_size
        /\ \A k \in 1 .. dsCall.block_size :
              /\ dsCall.item.x[k] = dsCall.data[dsCall.idx * dsCall.block_size + k]
              /\ dsCall.item.y[k] = dsCall.data[dsCall.idx * dsCall.block_size + k + 1]

\* C13: loading a checkpoint train() saved gives back the step counter and the
\* parameters current at the save, and the stored step counter equals the
\* number of micro-steps completed when the checkpoint was written.
C13_RoundTrip ==
    \A i \in IntervalSaves :
        /\ saveLog[i].obj.iter_num = saveLog[i].micro
        /\ (loaded.state # "idle" /\ loaded.path = saveLog[i].path
              /\ files.file[loaded.path].state = "complete") =>
                /\ loaded.state = "returned"
                /\ loaded.params = saveLog[i].obj.model
                /\ loaded.checkpoint.iter_num = saveLog[i].iter_num

\* process p is inside an iteration of the batch loop, its step not yet counted
InFlight(p) == proc[p].pc \in {"backward", "step", "log", "saving", "advance"}

\* C14: on every rank iter_num grows by exactly one per micro-step and never
\* restarts; ranks that have completed the same gradient synchronization held
\* the same iter_num at it, no rank is more than one synchronization ahead of
\* another, and all ranks leave the loops with the same iter_num.
C14_StepCounterInLockstep ==
    /\ \A p \in Procs :
          proc[p].iter_num = proc[p].micro - (IF InFlight(p) THEN 1 ELSE 0)
    /\ \A p, q \in Procs :
          /\ (proc[p].syncs = proc[q].syncs /\ proc[p].syncs > 0)
                => proc[p].sync_iter = proc[q].sync_iter
          /\ proc[p].world_size > 1 => proc[p].syncs <= proc[q].syncs + 1
          /\ (LoopsLeft(p) /\ LoopsLeft(q)) => proc[p].iter_num = proc[q].iter_num

\* two ranks have finished a run that crossed an epoch boundary
C14_Witness ==
    \E p, q \in Procs :
        /\ p # q
        /\ proc[p].pc = "done" /\ proc[q].pc = "done"
        /\ proc[p].epoch >= 1
        /\ proc[p].iter_num = config.max_iters
        /\ proc[q].iter_num = config.max_iters

\* C15: under the distributed wrapper the gradient synchronization happens
\* once per accumulation window, at the boundary micro-step only.
C15_SyncOncePerWindow ==
    \A p \in Procs :
        (proc[p].world_size > 1 /\ Settled(p)) => proc[p].syncs = proc[p].opt

\* C16: every optimizer step applies the gradients of exactly
\* gradient_accumulation_steps micro-steps, none left over from an earlier
\* unfinished window.
C16_WindowOfExactlyN ==
    \A p \in Procs :
        proc[p].opt >= 1 => proc[p].window = config.gradient_accumulation_steps

\* C17: the learning rate of an optimizer step is get_lr at the index of that
\* optimizer step, so the schedule advances once per window.
C17_LrAtOptimizerStepIndex ==
    \A p \in Procs :
        (/\ proc[p].opt >= 1
         /\ ~GetLrRaises(proc[p].opt - 1, config.warmup_iters, config.lr_decay_iters)) =>
            proc[p].step_lr = GetLr(proc[p].opt - 1, config.warmup_iters,
                                    config.learning_rate, config.lr_decay_iters,
                                    config.min_lr)

\* C18: every interval checkpoint is written at a window boundary, after the
\* optimizer update of its step, never with a partially accumulated window.
C18_CheckpointAtBoundary ==
    \A i \in IntervalSaves : saveLog[i].grads = 0

\* C19: unscale, clip, step, scaler update and zero_grad happen in that order
\* at the micro-steps that pass the test of line 127 and at no other; the
\* unscale and the clip are left out exactly when grad_clip = 0.
C19_BoundaryProtocol ==
    \A p \in Procs :
        proc[p].pc \in {"log", "saving", "advance"} =>
            proc[p].ops =
                IF (proc[p].batch_idx + 1) % config.gradient_accumulation_steps = 0
                THEN IF config.grad_clip = 0
                     THEN <<"step", "update", "zero_grad">>
                     ELSE <<"unscale_", "clip_grad_norm_", "step", "update", "zero_grad">>
                ELSE <<>>

\* a boundary of a window of two or more with clipping disabled
C19_Witness ==
    \E p \in Procs :
        /\ proc[p].pc = "log"
        /\ config.grad_clip = 0
        /\ config.gradient_accumulation_steps >= 2
        /\ proc[p].ops = <<"step", "update", "zero_grad">>

\* C20: when train() leaves its loops no gradient of a micro-step is waiting
\* for an optimizer step.
C20_NoPartialWindowAtStop ==
    \A p \in Procs : LoopsLeft(p) => proc[p].grads = 0

\* C21: on every rank running_loss never holds the losses of more than
\* log_interval micro-steps, and every value the master reports is the sum over
\* exactly log_interval micro-steps, the first report of the run included.
C21_RunningLossWindow ==
    \A p \in Procs :
        /\ proc[p].running <= config.log_interval
        /\ \A i \in 1 .. Len(proc[p].reports) :
               proc[p].reports[i] = config.log_interval

\* C22: with the same configuration and the same number of batches on every
\* rank, under fair scheduling every rank eventually reaches
\* cleanup_distributed and returns from it.
C22_EveryRankReachesCleanup ==
    <>(\A p \in Procs : proc[p].pc = "done")

\* the part of C22 about the collectives: no rank is left waiting in a
\* backward pass for a peer, every rank ends by returning or by raising
C22_NoRankWaitsForever ==
    <>(\A p \in Procs : proc[p].pc \in {"done", "crashed"})

====
